---- MODULE Spec2Model ----
(***************************************************************************)
(* Seat allocation of hall-assigner-pro: the SeatAllocation component's    *)
(* generateSeatingAllocation handler, run by operator sessions against the *)
(* shared relational store (students, classrooms, exams,                   *)
(* seating_allocations), and the Settings screen's handlers on             *)
(* seating_combinations.  A handler is cut at its awaits: each action is   *)
(* one store request with the synchronous code that follows its response.  *)
(***************************************************************************)
EXTENDS Integers, Sequences, FiniteSets, TLC

VARIABLES
    year,           \* store: students.year, per student id
    active,         \* store: classrooms.is_active, per classroom id
    stored,         \* store: the rows of seating_allocations
    classrooms,     \* session state: classrooms loaded by fetchClassrooms
    pc,             \* session: the await generateSeatingAllocation is parked at
    isAllocating,   \* session state: isAllocating
    rooms,          \* run: the classrooms value the running handler closed over
    strategy,       \* run: combination.mix_strategy of the selected combination
    students,       \* run: the rows returned by the students query
    allocations,    \* run: the allocations array built by the packing loops
    toast,          \* run: the toast the handler ended with
    answered,       \* history: the students query of this run was answered without error
    removed,        \* history: rows this run's delete request removed
    inserted,       \* history: rows this run's insert request added
    runs,           \* number of runs started so far
    edits,          \* number of roster / classroom / exam edits made so far
    status,         \* store: exams.status, per exam id
    years_of,       \* store: exams.years, per exam id
    exams,          \* session state: exams loaded by fetchExams (id to years)
    selectedExam,   \* session state: selectedExam
    mixedStudents,  \* run: the mixedStudents array of the strategy branch
    is_default,     \* store: seating_combinations.is_default, per combination id
    settings,       \* session: the await a Settings handler is parked at
    dialog,         \* classroom screen: dialogOpen, editingClassroom, the request in flight
    submits,        \* history: the classroom inserts and updates the store executed
    report,         \* report screen: its state hooks and its queries in flight
    index,          \* Index: currentUser, currentPage, the login query in flight
    upload,         \* ExcelUpload: the import under way and its result
    roll_numbers    \* store: the roll numbers of the students the imports inserted

vars == <<year, active, stored, classrooms, pc, isAllocating, rooms, strategy,
          students, allocations, toast, answered, removed, inserted, runs, edits,
          status, years_of, exams, selectedExam, mixedStudents, is_default, settings,
          dialog, submits, report, index, upload, roll_numbers>>

\* The variables of the exam list and of the Settings screen.
examVars == <<status, years_of, exams, selectedExam>>
settingsVars == <<is_default, settings>>
dialogVars == <<dialog, submits>>
reportVars == <<report>>
indexVars == <<index>>
uploadVars == <<upload, roll_numbers>>
otherScreens == <<dialogVars, reportVars, indexVars, uploadVars>>

\* The variables the Settings screen leaves alone.
screenVars ==
    <<year, active, stored, classrooms, pc, isAllocating, rooms, strategy, students,
      allocations, toast, answered, removed, inserted, runs, edits, examVars, mixedStudents>>
allocationVars == <<screenVars, otherScreens>>

\* The variables the classroom dialog, the report screen, Index and the
\* upload screen leave alone.
besidesDialog == <<screenVars, settingsVars, reportVars, indexVars, uploadVars>>
besidesReports == <<screenVars, settingsVars, dialogVars, indexVars, uploadVars>>
besidesIndex == <<screenVars, settingsVars, dialogVars, reportVars, uploadVars>>
besidesUpload == <<screenVars, settingsVars, dialogVars, reportVars, indexVars>>

(***************************************************************************)
(* Bounds of the model.                                                    *)
(***************************************************************************)
MaxStudents == 3
MaxRuns == 2
MaxEdits == 1
MaxRoster == 4
MaxCombinations == 4
MaxSubmits == 2
MaxRows == 3
ScenarioStudents == 230

Sessions == {1, 2}
StudentIds == 1 .. MaxStudents

(***************************************************************************)
(* The store's vocabularies (CHECK constraints of the schema).             *)
(***************************************************************************)
Years == {"II Year", "III Year", "IV Year"}
StrategyNames == {"alternate", "block", "random"}
SeatPositions == {1, 2}

\* The years of the students of the initial roster.
InitYears == {"II Year", "IV Year"}

\* A name the mixing branch can be handed that is none of the three.
AnyStrategyNames == StrategyNames \cup {"zigzag"}

\* Text order of the year labels and of the section letters.
YearRank(y) == CASE y = "II Year" -> 1 [] y = "III Year" -> 2 [] OTHER -> 3
SectionRank(x) == IF x = "A" THEN 1 ELSE 2

\* The roster: student i has roll number i; odd rolls sit in section A.
Section(i) == IF i % 2 = 1 THEN "A" ELSE "B"

\* The exam the sessions allocate, and its year set.
SelectedExam == "e1"
ExamYears == {"II Year", "III Year"}

\* The exams table: a second exam, sharing the II Year students with the first.
Exams == {SelectedExam, "e2"}
ExamYearsOf(e) == IF e = SelectedExam THEN ExamYears ELSE {"II Year", "IV Year"}
Statuses == {"scheduled", "ongoing", "completed", "cancelled"}

\* The year checkboxes of the exam form.
yearOptions == {"1st Year", "2nd Year", "3rd Year", "4th Year"}

\* fetchExams: the rows of the exams whose status is scheduled.
fetchExams(st, yrs) == [e \in {x \in Exams : st[x] = "scheduled"} |-> yrs[e]]

\* The seating_combinations table: the combination offered for each strategy.
\* k1 and k2 are rows of the migration; k3 is one made on the Settings screen.
SeatingCombinations ==
    { [id |-> "k1", name |-> "III & IV Year Mix", allowed_years |-> {"III Year", "IV Year"},
       allowed_sections |-> {"A", "B", "C", "D"}, mix_strategy |-> "alternate"],
      [id |-> "k2", name |-> "All Years Mix", allowed_years |-> Years,
       allowed_sections |-> {"A", "B", "C", "D"}, mix_strategy |-> "random"],
      [id |-> "k3", name |-> "IV Year A", allowed_years |-> {"IV Year"},
       allowed_sections |-> {"A"}, mix_strategy |-> "block"] }

\* seatingCombinations.find(...): the selected combination, named by its strategy.
Combination(name) ==
    IF \E c \in SeatingCombinations : c.mix_strategy = name
    THEN CHOOSE c \in SeatingCombinations : c.mix_strategy = name
    ELSE [id |-> "k0", name |-> name, allowed_years |-> Years,
          allowed_sections |-> {"A", "B", "C", "D"}, mix_strategy |-> name]

\* The classrooms table, in room_number order.
ClassroomTable ==
    << [id |-> "c1", room_number |-> "A-101", total_benches |-> 2, students_per_bench |-> 1],
       [id |-> "c2", room_number |-> "A-102", total_benches |-> 1, students_per_bench |-> 3] >>

ClassroomIds == {ClassroomTable[k].id : k \in 1 .. Len(ClassroomTable)}

\* total_capacity counting the benches only.
total_capacity_of_benches(r) == r.total_benches

\* total_capacity is a generated column of the classrooms table.
total_capacity(r) == r.total_benches * r.students_per_bench

ClassroomRow(r) ==
    [id |-> r.id, room_number |-> r.room_number, total_benches |-> r.total_benches,
     students_per_bench |-> r.students_per_bench, total_capacity |-> total_capacity(r)]

\* fetchClassrooms: the active classrooms ordered by room_number.
RECURSIVE ActiveFrom(_, _)
ActiveFrom(act, k) ==
    IF k > Len(ClassroomTable) THEN << >>
    ELSE (IF act[ClassroomTable[k].id] THEN << ClassroomRow(ClassroomTable[k]) >> ELSE << >>)
         \o ActiveFrom(act, k + 1)

fetchClassrooms(act) == ActiveFrom(act, 1)

(***************************************************************************)
(* The students query: year in exam.years, ordered by year, section, roll. *)
(***************************************************************************)
StudentRow(yr, i) == [id |-> i, year |-> yr[i], section |-> Section(i)]

Precedes(a, b) ==
    \/ YearRank(a.year) < YearRank(b.year)
    \/ /\ a.year = b.year
       /\ \/ SectionRank(a.section) < SectionRank(b.section)
          \/ a.section = b.section /\ a.id < b.id

RECURSIVE OrderRows(_)
OrderRows(S) ==
    IF S = {} THEN << >>
    ELSE LET m == CHOOSE a \in S : \A b \in S \ {a} : Precedes(a, b)
         IN << m >> \o OrderRows(S \ {m})

SelectStudents(yr, years) ==
    OrderRows({StudentRow(yr, i) : i \in {j \in StudentIds : yr[j] \in years}})

\* The query narrowed by the combination's allowed_years as well.
EligibleByCombination(yr, exam, combination) ==
    SelectStudents(yr, exam.years \cap combination.allowed_years)

\* "Fetch eligible students based on exam years and combination rules": the
\* query is built from exam.years alone.
EligibleStudents(yr, exam, combination) == SelectStudents(yr, exam.years)

(***************************************************************************)
(* Mixing strategies.                                                      *)
(***************************************************************************)
GroupKey(x) == << x.year, x.section >>

\* Object.keys(groups): the keys in order of first insertion, that is by the
\* position of their first student in the input.
FirstOf(seq, k) == CHOOSE n \in 1 .. Len(seq) :
                      /\ GroupKey(seq[n]) = k
                      /\ \A m \in 1 .. n - 1 : GroupKey(seq[m]) # k

RECURSIVE KeysByFirst(_, _)
KeysByFirst(seq, ks) ==
    IF ks = {} THEN << >>
    ELSE LET k == CHOOSE a \in ks : \A b \in ks : FirstOf(seq, a) <= FirstOf(seq, b)
         IN << k >> \o KeysByFirst(seq, ks \ {k})

\* The keys in the reverse of their insertion order.
groupKeysLastFirst(seq) ==
    LET ks == KeysByFirst(seq, {GroupKey(seq[n]) : n \in 1 .. Len(seq)})
    IN [n \in 1 .. Len(ks) |-> ks[Len(ks) + 1 - n]]

groupKeys(seq) == KeysByFirst(seq, {GroupKey(seq[n]) : n \in 1 .. Len(seq)})

\* groups[key]: the students of a key, in input order.
GroupOf(seq, k) == SelectSeq(seq, LAMBDA x : GroupKey(x) = k)

RECURSIVE MaxOf(_)
MaxOf(S) ==
    IF S = {} THEN 0
    ELSE LET v == CHOOSE a \in S : TRUE
             w == MaxOf(S \ {v})
         IN IF v > w THEN v ELSE w

\* The inner loop of alternateStudentsByYearSection: one pass over the keys.
RECURSIVE AlternateRound(_, _, _, _)
AlternateRound(seq, ks, n, i) ==
    IF n > Len(ks) THEN << >>
    ELSE (IF i <= Len(GroupOf(seq, ks[n])) THEN << GroupOf(seq, ks[n])[i] >> ELSE << >>)
         \o AlternateRound(seq, ks, n + 1, i)

\* The outer loop: the passes i .. maxLength one after the other (taken in
\* two halves, which keeps the evaluation shallow on long rosters).
RECURSIVE AlternateFrom(_, _, _, _)
AlternateFrom(seq, ks, i, maxLength) ==
    IF i > maxLength THEN << >>
    ELSE IF i = maxLength THEN AlternateRound(seq, ks, 1, i)
    ELSE LET mid == (i + maxLength) \div 2
         IN AlternateFrom(seq, ks, i, mid) \o AlternateFrom(seq, ks, mid + 1, maxLength)

\* alternateStudentsByYearSection handing its input back as it came.
alternateKeepsInputOrder(seq) == seq

alternateStudentsByYearSection(seq) ==
    LET ks == groupKeys(seq)
        maxLength == MaxOf({Len(GroupOf(seq, ks[n])) : n \in 1 .. Len(ks)})
    IN AlternateFrom(seq, ks, 1, maxLength)

\* shuffleArray: for i from the last index down to the second, swap
\* positions i and j, j drawn by Math.random from the positions up to i.
\* The swap without its second half: position j keeps its element.
SwapAtOverwrite(a, i, j) == [a EXCEPT ![i] = a[j]]

SwapAt(a, i, j) == [a EXCEPT ![i] = a[j], ![j] = a[i]]

RandomDraws(n) == {js \in [2 .. n -> 1 .. n] : \A i \in 2 .. n : js[i] <= i}

RECURSIVE ShuffleFrom(_, _, _)
ShuffleFrom(a, i, js) ==
    IF i <= 1 THEN a ELSE ShuffleFrom(SwapAt(a, i, js[i]), i - 1, js)

shuffleArray(array, js) == ShuffleFrom(array, Len(array), js)

\* The strategy branch with the shuffle taken on every branch.
MixedStudentsAllShuffled(name, seq) ==
    {shuffleArray(seq, js) : js \in RandomDraws(Len(seq))}

\* The strategy branch of generateSeatingAllocation: the orders it can
\* produce for a strategy name (one per outcome of the random draws).
MixedStudents(name, seq) ==
    IF name = "alternate" THEN {alternateStudentsByYearSection(seq)}
    ELSE IF name = "random" THEN {shuffleArray(seq, js) : js \in RandomDraws(Len(seq))}
    ELSE {seq}

(***************************************************************************)
(* The packing loops.  st is [allocations, studentIndex].                  *)
(***************************************************************************)
\* Allocation with the loop counters mixed up: the seat counter written as
\* the bench number.
AllocationBenchFromSeat(exam, classroom, x, bench, seat) ==
    [exam_id |-> exam, classroom_id |-> classroom.id, student_id |-> x.id,
     bench_number |-> seat, seat_position |-> seat]

Allocation(exam, classroom, x, bench, seat) ==
    [exam_id |-> exam, classroom_id |-> classroom.id, student_id |-> x.id,
     bench_number |-> bench, seat_position |-> seat]

\* SeatLoop stopping after the first seat of a bench.
RECURSIVE SeatLoopFirstSeatOnly(_, _, _, _, _, _)
SeatLoopFirstSeatOnly(exam, mixed, classroom, bench, seat, st) ==
    IF seat > 1 THEN st
    ELSE IF st.studentIndex >= Len(mixed) THEN st
    ELSE SeatLoopFirstSeatOnly(exam, mixed, classroom, bench, seat + 1,
                  [allocations |-> Append(st.allocations,
                                          Allocation(exam, classroom, mixed[st.studentIndex + 1],
                                                     bench, seat)),
                   studentIndex |-> st.studentIndex + 1])

RECURSIVE SeatLoop(_, _, _, _, _, _)
SeatLoop(exam, mixed, classroom, bench, seat, st) ==
    IF seat > classroom.students_per_bench THEN st
    ELSE IF st.studentIndex >= Len(mixed) THEN st
    ELSE SeatLoop(exam, mixed, classroom, bench, seat + 1,
                  [allocations |-> Append(st.allocations,
                                          Allocation(exam, classroom, mixed[st.studentIndex + 1],
                                                     bench, seat)),
                   studentIndex |-> st.studentIndex + 1])

\* BenchLoop running one bench past total_benches.
RECURSIVE BenchLoopOneMore(_, _, _, _, _)
BenchLoopOneMore(exam, mixed, classroom, bench, st) ==
    IF bench > classroom.total_benches + 1 THEN st
    ELSE BenchLoopOneMore(exam, mixed, classroom, bench + 1,
                          SeatLoop(exam, mixed, classroom, bench, 1, st))

RECURSIVE BenchLoop(_, _, _, _, _)
BenchLoop(exam, mixed, classroom, bench, st) ==
    IF bench > classroom.total_benches THEN st
    ELSE BenchLoop(exam, mixed, classroom, bench + 1,
                   SeatLoop(exam, mixed, classroom, bench, 1, st))

RECURSIVE ClassroomLoop(_, _, _, _, _)
ClassroomLoop(exam, mixed, cls, k, st) ==
    IF k > Len(cls) THEN st
    ELSE IF st.studentIndex >= Len(mixed) THEN st
    ELSE ClassroomLoop(exam, mixed, cls, k + 1, BenchLoop(exam, mixed, cls[k], 1, st))

\* PackStudents with studentIndex starting one too far.
PackStudentsFromSecond(exam, mixed, cls) ==
    ClassroomLoop(exam, mixed, cls, 1, [allocations |-> << >>, studentIndex |-> 1]).allocations

PackStudents(exam, mixed, cls) ==
    ClassroomLoop(exam, mixed, cls, 1, [allocations |-> << >>, studentIndex |-> 0]).allocations

\* totalCapacity summing the benches instead of the seats.
RECURSIVE totalBenches(_)
totalBenches(cls) ==
    IF cls = << >> THEN 0
    ELSE totalBenches(SubSeq(cls, 1, Len(cls) - 1)) + cls[Len(cls)].total_benches

\* classrooms.reduce((sum, room) => sum + room.total_capacity, 0)
RECURSIVE totalCapacity(_)
totalCapacity(cls) ==
    IF cls = << >> THEN 0
    ELSE totalCapacity(SubSeq(cls, 1, Len(cls) - 1)) + cls[Len(cls)].total_capacity

(***************************************************************************)
(* The seating_allocations table.                                          *)
(***************************************************************************)
RowSet(seq) == {seq[n] : n \in 1 .. Len(seq)}

\* The delete without its exam_id filter.
ExamRowsOfAll(rows, e) == rows

ExamRows(rows, e) == {r \in rows : r.exam_id = e}

SameSlot(a, b) ==
    /\ a.exam_id = b.exam_id
    /\ a.classroom_id = b.classroom_id
    /\ a.bench_number = b.bench_number
    /\ a.seat_position = b.seat_position

SameStudent(a, b) == a.exam_id = b.exam_id /\ a.student_id = b.student_id

\* The table's constraints on an insert of the rows seq into rows:
\* CHECK (seat_position IN (1, 2)), UNIQUE(exam, classroom, bench, seat),
\* UNIQUE(exam, student); against the stored rows and inside the batch.
InsertAccepted(rows, seq) ==
    /\ \A n \in 1 .. Len(seq) : seq[n].seat_position \in SeatPositions
    /\ \A n \in 1 .. Len(seq) : \A r \in rows :
          ~SameSlot(seq[n], r) /\ ~SameStudent(seq[n], r)
    /\ \A n, m \in 1 .. Len(seq) :
          n # m => ~SameSlot(seq[n], seq[m]) /\ ~SameStudent(seq[n], seq[m])

(***************************************************************************)
(* Initial state: a roster in the store, every classroom active and every  *)
(* exam scheduled (the columns' defaults), no allocation stored, both      *)
(* sessions mounted and idle with the first exam selected.                 *)
(***************************************************************************)
NoToast == [title |-> "", needed |-> 0, available |-> 0, allocated |-> 0]

\* No Settings handler is running.
SettingsIdle == [at |-> "idle", id |-> "", is_default |-> FALSE]

\* fetchExamsWithAllocations: the exams with an allocation count above 0.
fetchExamsWithAllocations(rows) == {e \in Exams : ExamRows(rows, e) # {}}

\* The report screen as mounted, its exam list loaded.  reportsFor and
\* availableFor record the exam of the query that loaded the reports and the
\* filter list.
NoQuery == [exam_id |-> "", classroom_id |-> ""]
ReportsMounted(list) ==
    [exams |-> list, selectedExam |-> "", selectedClassroom |-> "",
     seatingReports |-> {}, reportsFor |-> "", availableClassrooms |-> {},
     availableFor |-> "", isGenerating |-> FALSE, chart |-> NoQuery,
     roomQueries |-> {}]

\* Index as mounted: nobody logged in, currentPage dashboard, no login query
\* in flight.
LoggedOut == [currentUser |-> "", currentPage |-> "dashboard", loading |-> ""]

\* ExcelUpload as mounted: nothing uploading, no result shown.  students is
\* the parsed file of the import under way, at the row whose insert is
\* awaited, sent the rows handed to the store so far.
NoResult == [success |-> -1, failed |-> -1, errors |-> << >>]
NoUpload ==
    [uploading |-> FALSE, pc |-> "idle", students |-> << >>, at |-> 0,
     successCount |-> 0, failedCount |-> 0, errors |-> << >>, sent |-> << >>,
     uploadResult |-> NoResult, toast |-> ""]

\* The classroom screen as mounted: dialog closed, no classroom being edited,
\* no request in flight.  via is the control that opened the dialog last.
NoRequest == [kind |-> "", id |-> "", via |-> ""]
DialogClosed ==
    [dialogOpen |-> FALSE, editingClassroom |-> "", via |-> "", pending |-> NoRequest]

Init ==
    /\ year \in [StudentIds -> InitYears]
    /\ active = [c \in ClassroomIds |-> TRUE]
    /\ stored = {}
    /\ classrooms = [s \in Sessions |-> fetchClassrooms(active)]
    /\ pc = [s \in Sessions |-> "idle"]
    /\ isAllocating = [s \in Sessions |-> FALSE]
    /\ rooms = [s \in Sessions |-> << >>]
    /\ strategy = [s \in Sessions |-> "block"]
    /\ students = [s \in Sessions |-> << >>]
    /\ allocations = [s \in Sessions |-> << >>]
    /\ toast = [s \in Sessions |-> NoToast]
    /\ answered = [s \in Sessions |-> FALSE]
    /\ removed = [s \in Sessions |-> 0]
    /\ inserted = [s \in Sessions |-> 0]
    /\ runs = 0
    /\ edits = 0
    /\ status = [e \in Exams |-> "scheduled"]
    /\ years_of = [e \in Exams |-> ExamYearsOf(e)]
    /\ exams = [s \in Sessions |-> fetchExams(status, years_of)]
    /\ selectedExam = [s \in Sessions |-> SelectedExam]
    /\ mixedStudents = [s \in Sessions |-> << >>]
    /\ is_default = [k \in {c.id : c \in SeatingCombinations} |-> k = "k1"]
    /\ settings = [s \in Sessions |-> SettingsIdle]
    /\ dialog = DialogClosed
    /\ submits = << >>
    /\ report = ReportsMounted({})
    /\ index = LoggedOut
    /\ upload = NoUpload
    /\ roll_numbers = {}

(***************************************************************************)
(* generateSeatingAllocation, cut at its three awaits.                     *)
(***************************************************************************)
\* The click: the button is enabled only with both selections made and
\* isAllocating false.  Runs up to the students query.
generateSeatingAllocation(s, names) ==
    /\ pc[s] = "idle"
    /\ ~isAllocating[s]
    /\ runs < MaxRuns
    /\ selectedExam[s] \in DOMAIN exams[s]
    /\ \E name \in names : strategy' = [strategy EXCEPT ![s] = name]
    /\ isAllocating' = [isAllocating EXCEPT ![s] = TRUE]
    /\ rooms' = [rooms EXCEPT ![s] = classrooms[s]]
    /\ students' = [students EXCEPT ![s] = << >>]
    /\ allocations' = [allocations EXCEPT ![s] = << >>]
    /\ mixedStudents' = [mixedStudents EXCEPT ![s] = << >>]
    /\ toast' = [toast EXCEPT ![s] = NoToast]
    /\ answered' = [answered EXCEPT ![s] = FALSE]
    /\ removed' = [removed EXCEPT ![s] = 0]
    /\ inserted' = [inserted EXCEPT ![s] = 0]
    /\ runs' = runs + 1
    /\ pc' = [pc EXCEPT ![s] = "students"]
    /\ UNCHANGED <<year, active, stored, classrooms, edits>>
    /\ UNCHANGED <<examVars, settingsVars, otherScreens>>

\* The students query answers (data is null when the request fails).  With no
\* rows the handler shows "No Students Found" and returns; otherwise it sends
\* the delete.
StudentsAnswer(s) ==
    /\ pc[s] = "students"
    /\ \E ok \in BOOLEAN :
          LET exam == [id |-> selectedExam[s], years |-> exams[s][selectedExam[s]]]
              data == IF ok THEN EligibleStudents(year, exam, Combination(strategy[s]))
                            ELSE << >>
          IN
          /\ answered' = [answered EXCEPT ![s] = ok]
          /\ students' = [students EXCEPT ![s] = data]
          /\ IF Len(data) = 0
             THEN /\ toast' = [toast EXCEPT ![s] =
                                  [title |-> "No Students Found", needed |-> 0, available |-> 0,
                                   allocated |-> 0]]
                  /\ isAllocating' = [isAllocating EXCEPT ![s] = FALSE]
                  /\ pc' = [pc EXCEPT ![s] = "idle"]
             ELSE /\ pc' = [pc EXCEPT ![s] = "delete"]
                  /\ UNCHANGED <<toast, isAllocating>>
    /\ UNCHANGED <<year, active, stored, classrooms, rooms, strategy, allocations,
                   removed, inserted, runs, edits>>
    /\ UNCHANGED <<examVars, settingsVars, otherScreens, mixedStudents>>

\* The delete is executed (or fails: its result is not looked at).  Then the
\* capacity test, the mixing and the packing run, and the insert is sent.
DeleteAnswer(s) ==
    /\ pc[s] = "delete"
    /\ \E done \in BOOLEAN :
          LET gone == IF done THEN ExamRows(stored, selectedExam[s]) ELSE {}
          IN /\ stored' = stored \ gone
             /\ removed' = [removed EXCEPT ![s] = Cardinality(gone)]
    /\ IF Len(students[s]) > totalCapacity(rooms[s])
       THEN /\ toast' = [toast EXCEPT ![s] =
                            [title |-> "Insufficient Capacity",
                             needed |-> Len(students[s]),
                             available |-> totalCapacity(rooms[s]),
                             allocated |-> 0]]
            /\ isAllocating' = [isAllocating EXCEPT ![s] = FALSE]
            /\ pc' = [pc EXCEPT ![s] = "idle"]
            /\ UNCHANGED <<allocations, mixedStudents>>
       ELSE /\ \E mixed \in MixedStudents(strategy[s], students[s]) :
                  /\ mixedStudents' = [mixedStudents EXCEPT ![s] = mixed]
                  /\ allocations' = [allocations EXCEPT ![s] =
                                        PackStudents(selectedExam[s], mixed, rooms[s])]
            /\ pc' = [pc EXCEPT ![s] = "insert"]
            /\ UNCHANGED <<toast, isAllocating>>
    /\ UNCHANGED <<year, active, classrooms, rooms, strategy, students,
                   answered, inserted, runs, edits>>
    /\ UNCHANGED <<examVars, settingsVars, otherScreens>>

\* InsertAnswer with setIsAllocating(false) on the success path only, in
\* place of the finally block.
InsertAnswerNoFinally(s) ==
    /\ pc[s] = "insert"
    /\ \E reached \in BOOLEAN :
          IF reached /\ InsertAccepted(stored, allocations[s])
          THEN /\ stored' = stored \cup RowSet(allocations[s])
               /\ inserted' = [inserted EXCEPT ![s] = Len(allocations[s])]
               /\ toast' = [toast EXCEPT ![s] =
                               [title |-> "Allocation Complete", needed |-> 0,
                                available |-> 0, allocated |-> Len(allocations[s])]]
               /\ isAllocating' = [isAllocating EXCEPT ![s] = FALSE]
          ELSE /\ toast' = [toast EXCEPT ![s] =
                               [title |-> "Allocation Failed", needed |-> 0, available |-> 0,
                                allocated |-> 0]]
               /\ UNCHANGED <<stored, inserted, isAllocating>>
    /\ pc' = [pc EXCEPT ![s] = "idle"]
    /\ UNCHANGED <<year, active, classrooms, rooms, strategy, students, allocations,
                   answered, removed, runs, edits>>
    /\ UNCHANGED <<examVars, settingsVars, otherScreens, mixedStudents>>

\* The insert is executed as one statement: all rows or none.  It fails when
\* a table constraint rejects a row, or when the request itself fails.
InsertAnswer(s) ==
    /\ pc[s] = "insert"
    /\ \E reached \in BOOLEAN :
          IF reached /\ InsertAccepted(stored, allocations[s])
          THEN /\ stored' = stored \cup RowSet(allocations[s])
               /\ inserted' = [inserted EXCEPT ![s] = Len(allocations[s])]
               /\ toast' = [toast EXCEPT ![s] =
                               [title |-> "Allocation Complete", needed |-> 0,
                                available |-> 0, allocated |-> Len(allocations[s])]]
          ELSE /\ toast' = [toast EXCEPT ![s] =
                               [title |-> "Allocation Failed", needed |-> 0, available |-> 0,
                                allocated |-> 0]]
               /\ UNCHANGED <<stored, inserted>>
    /\ isAllocating' = [isAllocating EXCEPT ![s] = FALSE]
    /\ pc' = [pc EXCEPT ![s] = "idle"]
    /\ UNCHANGED <<year, active, classrooms, rooms, strategy, students, allocations,
                   answered, removed, runs, edits>>
    /\ UNCHANGED <<examVars, settingsVars, otherScreens, mixedStudents>>

(***************************************************************************)
(* The other screens, as far as they change what a run reads.              *)
(***************************************************************************)
\* StudentManagement.handleSubmit on an edited student: the year is updated.
UpdateStudent(i, y) ==
    /\ edits < MaxEdits
    /\ y # year[i]
    /\ year' = [year EXCEPT ![i] = y]
    /\ edits' = edits + 1
    /\ UNCHANGED <<active, stored, classrooms, pc, isAllocating, rooms, strategy,
                   students, allocations, toast, answered, removed, inserted, runs>>
    /\ UNCHANGED <<examVars, settingsVars, otherScreens, mixedStudents>>

\* ClassroomManagement.toggleActive.
toggleActive(c) ==
    /\ edits < MaxEdits
    /\ active' = [active EXCEPT ![c] = ~active[c]]
    /\ edits' = edits + 1
    /\ UNCHANGED <<year, stored, classrooms, pc, isAllocating, rooms, strategy,
                   students, allocations, toast, answered, removed, inserted, runs>>
    /\ UNCHANGED <<examVars, settingsVars, otherScreens, mixedStudents>>

\* The SeatAllocation screen is opened again: its mount effect reloads the
\* exams and the classrooms.
Mount(s) ==
    /\ pc[s] = "idle"
    /\ classrooms[s] # fetchClassrooms(active) \/ exams[s] # fetchExams(status, years_of)
    /\ classrooms' = [classrooms EXCEPT ![s] = fetchClassrooms(active)]
    /\ exams' = [exams EXCEPT ![s] = fetchExams(status, years_of)]
    /\ UNCHANGED <<year, active, stored, pc, isAllocating, rooms, strategy,
                   students, allocations, toast, answered, removed, inserted, runs, edits>>
    /\ UNCHANGED <<status, years_of, selectedExam, settingsVars, otherScreens, mixedStudents>>

Environment ==
    \/ \E i \in StudentIds : \E y \in Years : UpdateStudent(i, y)
    \/ \E c \in ClassroomIds : toggleActive(c)

Run(s, names) ==
    \/ generateSeatingAllocation(s, names)
    \/ StudentsAnswer(s)
    \/ DeleteAnswer(s)
    \/ InsertAnswer(s)
    \/ Mount(s)

\* Two sessions against one store, seating combinations as the store holds them.
Next ==
    \/ \E s \in Sessions : Run(s, StrategyNames)
    \/ Environment

Spec == Init /\ [][Next]_vars

\* One session working alone: runs follow one another, none overlap.
NextAlone ==
    \/ Run(1, StrategyNames)
    \/ Environment

SpecAlone == Init /\ [][NextAlone]_vars

\* One session running the block strategy while classrooms are switched on
\* and off, with every request of a run answered in the end: the store
\* client resolves each await with data or with an error.
NextBusy ==
    \/ Run(1, {"block"})
    \/ \E c \in ClassroomIds : toggleActive(c)

SpecBusy ==
    /\ Init /\ [][NextBusy]_vars
    /\ WF_vars(StudentsAnswer(1))
    /\ WF_vars(DeleteAnswer(1))
    /\ WF_vars(InsertAnswer(1))

\* Any strategy name reaching the mixing branch: the handler takes
\* mix_strategy as a string.
NextOpen ==
    \/ Run(1, AnyStrategyNames)
    \/ Environment

SpecOpen == Init /\ [][NextOpen]_vars

\* The exam Select: another exam of the loaded list is chosen.  A choice made
\* while a run is in flight is read by the next click only, so it is taken
\* between runs.
setSelectedExam(s, e) ==
    /\ pc[s] = "idle"
    /\ e \in DOMAIN exams[s]
    /\ e # selectedExam[s]
    /\ selectedExam' = [selectedExam EXCEPT ![s] = e]
    /\ UNCHANGED <<year, active, stored, classrooms, pc, isAllocating, rooms, strategy,
                   students, allocations, toast, answered, removed, inserted, runs, edits>>
    /\ UNCHANGED <<status, years_of, exams, settingsVars, otherScreens, mixedStudents>>

\* Two sessions, each allocating the exam it has selected, with the
\* combinations of the two strategies that draw nothing at random.
NextTwoExams ==
    \E s \in Sessions :
        \/ generateSeatingAllocation(s, {"alternate", "block"})
        \/ StudentsAnswer(s)
        \/ DeleteAnswer(s)
        \/ InsertAnswer(s)
        \/ \E e \in Exams : setSelectedExam(s, e)

SpecTwoExams == Init /\ [][NextTwoExams]_vars

\* An exam's status is changed in the store.  The exams policy admits the
\* update from any client; the session's loaded exam list is not told.
updateExamStatus(e, st) ==
    /\ edits < MaxEdits
    /\ st # status[e]
    /\ status' = [status EXCEPT ![e] = st]
    /\ edits' = edits + 1
    /\ UNCHANGED <<year, active, stored, classrooms, pc, isAllocating, rooms, strategy,
                   students, allocations, toast, answered, removed, inserted, runs>>
    /\ UNCHANGED <<years_of, exams, selectedExam, settingsVars, otherScreens, mixedStudents>>

\* ExamManagement.handleSubmit on an edited exam.  The form starts from the
\* exam's years; its checkboxes add and remove the labels of yearOptions
\* only, picked being the ones left checked.  The update writes the years
\* and status scheduled.
handleSubmitExam(e, picked) ==
    /\ edits < MaxEdits
    /\ (years_of[e] \ yearOptions) \cup picked # {}
    /\ years_of' = [years_of EXCEPT ![e] = (years_of[e] \ yearOptions) \cup picked]
    /\ status' = [status EXCEPT ![e] = "scheduled"]
    /\ edits' = edits + 1
    /\ UNCHANGED <<year, active, stored, classrooms, pc, isAllocating, rooms, strategy,
                   students, allocations, toast, answered, removed, inserted, runs>>
    /\ UNCHANGED <<exams, selectedExam, settingsVars, otherScreens, mixedStudents>>

\* One session, with exams edited through the exam form under it.
NextExamForm ==
    \/ Run(1, StrategyNames)
    \/ Environment
    \/ \E e \in Exams : \E picked \in SUBSET yearOptions : handleSubmitExam(e, picked)

SpecExamForm == Init /\ [][NextExamForm]_vars

(***************************************************************************)
(* ClassroomManagement: the Add/Edit dialog.  The dialog is modal, so the  *)
(* Add Classroom trigger and the table's Edit buttons are reachable only   *)
(* while it is closed.  handleSubmit is cut at its await.                  *)
(***************************************************************************)

\* The Add Classroom button is the DialogTrigger: it opens the dialog through
\* onOpenChange = setDialogOpen and sets nothing else.
AddClassroom ==
    /\ ~dialog.dialogOpen
    /\ dialog' = [dialog EXCEPT !.dialogOpen = TRUE, !.via = "add"]
    /\ UNCHANGED <<submits, besidesDialog>>

\* handleEdit: setEditingClassroom(classroom), setFormData, setDialogOpen(true).
handleEdit(c) ==
    /\ ~dialog.dialogOpen
    /\ dialog' = [dialog EXCEPT !.dialogOpen = TRUE, !.via = "edit",
                                !.editingClassroom = c]
    /\ UNCHANGED <<submits, besidesDialog>>

\* The Cancel button, and the dialog's own close (Escape, the X, a click
\* outside) through onOpenChange: setDialogOpen(false) and nothing else.
closeDialog ==
    /\ dialog.dialogOpen
    /\ dialog' = [dialog EXCEPT !.dialogOpen = FALSE]
    /\ UNCHANGED <<submits, besidesDialog>>

\* handleSubmit up to its await: an update of editingClassroom.id when
\* editingClassroom is set, an insert otherwise.
handleSubmit ==
    /\ dialog.dialogOpen
    /\ dialog.pending = NoRequest
    /\ Len(submits) < MaxSubmits
    /\ dialog' = [dialog EXCEPT !.pending =
                     IF dialog.editingClassroom # ""
                     THEN [kind |-> "update", id |-> dialog.editingClassroom,
                           via |-> dialog.via]
                     ELSE [kind |-> "insert", id |-> "", via |-> dialog.via]]
    /\ UNCHANGED <<submits, besidesDialog>>

\* handleSubmit from its await on.  On success the store has executed the
\* request, and the dialog closes with editingClassroom cleared; on an error
\* the catch block shows a toast and the dialog's state stays.
SubmitAnswer(ok) ==
    /\ dialog.pending # NoRequest
    /\ IF ok
       THEN /\ submits' = Append(submits, dialog.pending)
            /\ dialog' = [dialog EXCEPT !.dialogOpen = FALSE, !.editingClassroom = "",
                                        !.pending = NoRequest]
       ELSE /\ submits' = submits
            /\ dialog' = [dialog EXCEPT !.pending = NoRequest]
    /\ UNCHANGED besidesDialog

\* The classroom screen alone.
NextClassroomForm ==
    \/ AddClassroom
    \/ \E c \in ClassroomIds : handleEdit(c)
    \/ closeDialog
    \/ handleSubmit
    \/ \E ok \in BOOLEAN : SubmitAnswer(ok)

SpecClassroomForm == Init /\ [][NextClassroomForm]_vars

(***************************************************************************)
(* Reports: the report screen, its two queries cut at their awaits.        *)
(***************************************************************************)

\* The report screen starts from the allocations earlier runs left in the
\* store: a block run per exam over the active classrooms.
AllocatedRows(yr, e) ==
    RowSet(PackStudents(e, SelectStudents(yr, ExamYearsOf(e)),
                        fetchClassrooms([c \in ClassroomIds |-> TRUE])))

InitReports ==
    /\ year \in [StudentIds -> InitYears]
    /\ active = [c \in ClassroomIds |-> TRUE]
    /\ stored = UNION {AllocatedRows(year, e) : e \in Exams}
    /\ classrooms = [s \in Sessions |-> fetchClassrooms(active)]
    /\ pc = [s \in Sessions |-> "idle"]
    /\ isAllocating = [s \in Sessions |-> FALSE]
    /\ rooms = [s \in Sessions |-> << >>]
    /\ strategy = [s \in Sessions |-> "block"]
    /\ students = [s \in Sessions |-> << >>]
    /\ allocations = [s \in Sessions |-> << >>]
    /\ toast = [s \in Sessions |-> NoToast]
    /\ answered = [s \in Sessions |-> FALSE]
    /\ removed = [s \in Sessions |-> 0]
    /\ inserted = [s \in Sessions |-> 0]
    /\ runs = 0
    /\ edits = 0
    /\ status = [e \in Exams |-> "scheduled"]
    /\ years_of = [e \in Exams |-> ExamYearsOf(e)]
    /\ exams = [s \in Sessions |-> fetchExams(status, years_of)]
    /\ selectedExam = [s \in Sessions |-> SelectedExam]
    /\ mixedStudents = [s \in Sessions |-> << >>]
    /\ is_default = [k \in {c.id : c \in SeatingCombinations} |-> k = "k1"]
    /\ settings = [s \in Sessions |-> SettingsIdle]
    /\ dialog = DialogClosed
    /\ submits = << >>
    /\ report = ReportsMounted(fetchExamsWithAllocations(stored))
    /\ index = LoggedOut
    /\ upload = NoUpload
    /\ roll_numbers = {}

\* The row of a report: the columns the chart query selects.
ReportRow(a) ==
    [classroom_id |-> a.classroom_id, bench_number |-> a.bench_number,
     seat_position |-> a.seat_position, student_id |-> a.student_id]

\* The chart query: the exam's allocations, narrowed to a classroom when one
\* is picked in the filter.
ChartRows(rows, q) ==
    {ReportRow(a) : a \in {r \in ExamRows(rows, q.exam_id) :
                              q.classroom_id = "" \/ r.classroom_id = q.classroom_id}}

\* handleExamChange: the select's onValueChange.  It clears the reports and
\* the classroom filter's value, and sends the classroom query of the exam.
handleExamChange(e) ==
    /\ e \in report.exams
    /\ report' = [report EXCEPT !.selectedExam = e, !.selectedClassroom = "",
                                !.seatingReports = {}, !.reportsFor = "",
                                !.roomQueries = @ \cup {e}]
    /\ UNCHANGED besidesReports

\* fetchClassroomsForExam from its await on: with data, the distinct
\* classrooms of the exam's allocations replace the filter list.
ClassroomsAnswer(e, ok) ==
    /\ e \in report.roomQueries
    /\ report' = IF ok
                 THEN [report EXCEPT !.roomQueries = @ \ {e},
                          !.availableClassrooms =
                              {a.classroom_id : a \in ExamRows(stored, e)},
                          !.availableFor = e]
                 ELSE [report EXCEPT !.roomQueries = @ \ {e}]
    /\ UNCHANGED besidesReports

\* The classroom filter, shown while the filter list is not empty.
setSelectedClassroom(c) ==
    /\ report.availableClassrooms # {}
    /\ c \in report.availableClassrooms \cup {""}
    /\ report' = [report EXCEPT !.selectedClassroom = c]
    /\ UNCHANGED besidesReports

\* generateSeatingChart up to its await; the button is disabled without an
\* exam and while isGenerating.
generateSeatingChart ==
    /\ report.selectedExam # ""
    /\ ~report.isGenerating
    /\ report' = [report EXCEPT !.isGenerating = TRUE,
                     !.chart = [exam_id |-> report.selectedExam,
                                classroom_id |-> report.selectedClassroom]]
    /\ UNCHANGED besidesReports

\* generateSeatingChart from its await on: the rows, grouped by classroom,
\* replace the reports; an error leaves them; isGenerating falls either way.
ChartAnswer(ok) ==
    /\ report.chart # NoQuery
    /\ report' = IF ok
                 THEN [report EXCEPT !.isGenerating = FALSE, !.chart = NoQuery,
                          !.seatingReports = ChartRows(stored, report.chart),
                          !.reportsFor = report.chart.exam_id]
                 ELSE [report EXCEPT !.isGenerating = FALSE, !.chart = NoQuery]
    /\ UNCHANGED besidesReports

NextReports ==
    \/ \E e \in Exams : handleExamChange(e)
    \/ \E e \in Exams : \E ok \in BOOLEAN : ClassroomsAnswer(e, ok)
    \/ \E c \in ClassroomIds \cup {""} : setSelectedClassroom(c)
    \/ generateSeatingChart
    \/ \E ok \in BOOLEAN : ChartAnswer(ok)

SpecReports == InitReports /\ [][NextReports]_vars

(***************************************************************************)
(* Index and Layout: login, navigation, logout and the page rendered.      *)
(***************************************************************************)
UserTypes == {"faculty", "student"}
facultyNavItems ==
    {"dashboard", "students", "excel-upload", "classrooms", "allocations", "reports",
     "settings"}
studentNavItems == {"dashboard", "seating", "profile"}

\* onNavigate is setCurrentPage: it takes any string.  The page ids of both
\* menus and one id of neither.
PageIds == facultyNavItems \cup studentNavItems \cup {"unknown"}

\* renderPage with the default branch of the student switch falling through
\* to the faculty switch.
renderPageSharedSwitch(x) ==
    IF x.currentUser = "" THEN "LoginForm"
    ELSE CASE x.currentPage = "students" -> "StudentManagement"
           [] x.currentPage = "excel-upload" -> "ExcelUpload"
           [] x.currentPage = "classrooms" -> "ClassroomManagement"
           [] x.currentPage = "allocations" -> "SeatAllocation"
           [] x.currentPage = "reports" -> "Reports"
           [] x.currentPage = "settings" -> "Settings"
           [] x.currentPage = "seating" /\ x.currentUser = "student" -> "MySeating"
           [] x.currentPage = "profile" /\ x.currentUser = "student" -> "MyProfile"
           [] OTHER -> "Dashboard"

\* What Index renders: the login form without a user, else the page of the
\* user type's switch, Dashboard being the default of both.
renderPage(x) ==
    IF x.currentUser = "" THEN "LoginForm"
    ELSE IF x.currentUser = "faculty"
    THEN CASE x.currentPage = "students" -> "StudentManagement"
           [] x.currentPage = "excel-upload" -> "ExcelUpload"
           [] x.currentPage = "classrooms" -> "ClassroomManagement"
           [] x.currentPage = "allocations" -> "SeatAllocation"
           [] x.currentPage = "reports" -> "Reports"
           [] x.currentPage = "settings" -> "Settings"
           [] OTHER -> "Dashboard"
    ELSE CASE x.currentPage = "seating" -> "MySeating"
           [] x.currentPage = "profile" -> "MyProfile"
           [] OTHER -> "Dashboard"

\* handleFacultyLogin / handleStudentLogin up to the await; the buttons are
\* disabled while loading.
handleLoginSubmit(type) ==
    /\ index.currentUser = ""
    /\ index.loading = ""
    /\ index' = [index EXCEPT !.loading = type]
    /\ UNCHANGED besidesIndex

\* The login query answers: with a row, onLogin = handleLogin sets the user;
\* without one, or on an error, a toast.  loading falls either way.
LoginAnswer(ok) ==
    /\ index.loading # ""
    /\ index' = IF ok THEN [index EXCEPT !.currentUser = index.loading, !.loading = ""]
                      ELSE [index EXCEPT !.loading = ""]
    /\ UNCHANGED besidesIndex

\* Layout is rendered only with a user; its buttons call onNavigate.
onNavigate(page) ==
    /\ index.currentUser # ""
    /\ index' = [index EXCEPT !.currentPage = page]
    /\ UNCHANGED besidesIndex

handleLogout ==
    /\ index.currentUser # ""
    /\ index' = [index EXCEPT !.currentUser = "", !.currentPage = "dashboard"]
    /\ UNCHANGED besidesIndex

NextIndex ==
    \/ \E type \in UserTypes : handleLoginSubmit(type)
    \/ \E ok \in BOOLEAN : LoginAnswer(ok)
    \/ \E page \in PageIds : onNavigate(page)
    \/ handleLogout

SpecIndex == Init /\ [][NextIndex]_vars

(***************************************************************************)
(* ExcelUpload: handleFileUpload, cut at file.text() and at each insert.   *)
(***************************************************************************)

\* The rows of a parsed file: two good rows, and rows with a missing name,
\* a year of the exam form's vocabulary, and a section outside A to D.
ParsedRows ==
    {[roll_number |-> "r1", name |-> "n", year |-> "II Year", section |-> "A",
      department |-> "d"],
     [roll_number |-> "r2", name |-> "n", year |-> "IV Year", section |-> "D",
      department |-> "d"],
     [roll_number |-> "r1", name |-> "", year |-> "II Year", section |-> "A",
      department |-> "d"],
     [roll_number |-> "r1", name |-> "n", year |-> "1st Year", section |-> "A",
      department |-> "d"],
     [roll_number |-> "r2", name |-> "n", year |-> "III Year", section |-> "E",
      department |-> "d"]}

\* The parsed files: up to MaxRows data rows.
ParsedFiles == UNION {[1 .. n -> ParsedRows] : n \in 0 .. MaxRows}

\* The three validations of the loop, in their order; "" when the row passes.
validate(student) ==
    IF \/ student.roll_number = "" \/ student.name = "" \/ student.year = ""
       \/ student.section = "" \/ student.department = ""
    THEN "Missing required fields"
    ELSE IF student.year \notin {"II Year", "III Year", "IV Year"} THEN "Invalid year"
    ELSE IF student.section \notin {"A", "B", "C", "D"} THEN "Invalid section"
    ELSE ""

\* The validations without the one of the section.
invalidWithoutSection(student) ==
    validate(student) \notin {"", "Invalid section"}

invalid(student) == validate(student) # ""

\* After the loop: setUploadResult, the toast when a row succeeded, and the
\* finally block.
finishUpload(u) ==
    [u EXCEPT !.uploadResult = [success |-> u.successCount, failed |-> u.failedCount,
                                errors |-> u.errors],
              !.toast = IF u.successCount > 0 THEN "Upload Complete" ELSE "",
              !.uploading = FALSE, !.pc = "idle", !.at = 0]

\* The for loop from row i up to its next await: a row failing a validation
\* is recorded and skipped (continue); a row passing them is handed to the
\* store.  Rows are numbered from 2 in the messages, after the header.
RECURSIVE rowLoop(_, _)
rowLoop(u, i) ==
    IF i > Len(u.students) THEN finishUpload(u)
    ELSE IF invalid(u.students[i])
    THEN rowLoop([u EXCEPT !.errors = Append(@, [row |-> i + 1,
                                                  message |-> validate(u.students[i])]),
                           !.failedCount = @ + 1], i + 1)
    ELSE [u EXCEPT !.at = i, !.pc = "insert", !.sent = Append(@, i)]

\* handleFileUpload up to file.text(): a file is chosen; the input is
\* disabled while uploading.
handleFileUpload ==
    /\ ~upload.uploading
    /\ upload' = [NoUpload EXCEPT !.uploading = TRUE, !.pc = "text"]
    /\ UNCHANGED <<roll_numbers, besidesUpload>>

\* The text is read and parsed, and the loop runs up to its first insert.  A
\* read or a parse that throws ends in the outer catch: a toast, no result.
TextAnswer(ok) ==
    /\ upload.pc = "text"
    /\ IF ok
       THEN \E file \in ParsedFiles :
               upload' = rowLoop([upload EXCEPT !.students = file], 1)
       ELSE upload' = [upload EXCEPT !.toast = "Upload Error", !.uploading = FALSE,
                                     !.pc = "idle"]
    /\ UNCHANGED <<roll_numbers, besidesUpload>>

\* The insert of the row at hand answers: stored; refused by the store (the
\* roll number exists: code 23505, or another error); or the call throws.
\* The row is counted and the loop goes on with the next row.
StudentInsertAnswer(outcome) ==
    /\ upload.pc = "insert"
    /\ LET i == upload.at
           student == upload.students[i]
           exists == student.roll_number \in roll_numbers
           message == IF outcome = "throw" THEN "Unexpected error"
                      ELSE IF exists THEN "already exists" ELSE "error.message"
       IN IF outcome = "stored" /\ ~exists
          THEN /\ roll_numbers' = roll_numbers \cup {student.roll_number}
               /\ upload' = rowLoop([upload EXCEPT !.successCount = @ + 1], i + 1)
          ELSE /\ roll_numbers' = roll_numbers
               /\ upload' = rowLoop([upload EXCEPT
                                        !.errors = Append(@, [row |-> i + 1,
                                                              message |-> message]),
                                        !.failedCount = @ + 1], i + 1)
    /\ UNCHANGED besidesUpload

NextUpload ==
    \/ handleFileUpload
    \/ \E ok \in BOOLEAN : TextAnswer(ok)
    \/ \E outcome \in {"stored", "error", "throw"} : StudentInsertAnswer(outcome)

SpecUpload == Init /\ [][NextUpload]_vars

\* One session, with the exams' status changing under it.
NextExams ==
    \/ Run(1, StrategyNames)
    \/ Environment
    \/ \E e \in Exams : \E st \in Statuses : updateExamStatus(e, st)

SpecExams == Init /\ [][NextExams]_vars

(***************************************************************************)
(* The Settings screen: setDefaultCombination and saveSeatingCombination,  *)
(* cut at their awaits.  No request's error is looked at before the next   *)
(* request is sent, except the insert's.                                   *)
(***************************************************************************)
\* The ids the store gives to the combinations made on the screen.
NewIds == << "k4", "k5", "k6" >>
NewId(def) == NewIds[Cardinality(DOMAIN def) - Cardinality(SeatingCombinations) + 1]

\* The click on "set default" of combination id: the unset-all update is sent.
setDefaultCombination(s, id) ==
    /\ settings[s].at = "idle"
    /\ settings' = [settings EXCEPT ![s] = [at |-> "unset", id |-> id, is_default |-> TRUE]]
    /\ UNCHANGED <<is_default, allocationVars>>

\* The click on "save" of a new combination: with is_default set the
\* unset-all update is sent first, otherwise the insert.
saveSeatingCombination(s, def) ==
    /\ settings[s].at = "idle"
    /\ Cardinality(DOMAIN is_default) < MaxCombinations
    /\ settings' = [settings EXCEPT ![s] =
                       [at |-> IF def THEN "unset" ELSE "insert", id |-> "", is_default |-> def]]
    /\ UNCHANGED <<is_default, allocationVars>>

\* update({is_default: false}).eq('is_default', true) is executed, or fails;
\* the handler goes on to its next request either way.
UnsetAnswer(s) ==
    /\ settings[s].at = "unset"
    /\ \E ok \in BOOLEAN :
          is_default' = IF ok THEN [k \in DOMAIN is_default |-> FALSE] ELSE is_default
    /\ settings' = [settings EXCEPT ![s].at = IF settings[s].id # "" THEN "set" ELSE "insert"]
    /\ UNCHANGED allocationVars

\* update({is_default: true}).eq('id', id) is executed, or fails.
SetAnswer(s) ==
    /\ settings[s].at = "set"
    /\ \E ok \in BOOLEAN :
          is_default' = IF ok THEN [is_default EXCEPT ![settings[s].id] = TRUE] ELSE is_default
    /\ settings' = [settings EXCEPT ![s] = SettingsIdle]
    /\ UNCHANGED allocationVars

\* insert([newCombination]) is executed, or fails.
InsertCombinationAnswer(s) ==
    /\ settings[s].at = "insert"
    /\ \E ok \in BOOLEAN :
          is_default' =
              IF ok /\ Cardinality(DOMAIN is_default) < MaxCombinations
              THEN [k \in DOMAIN is_default \cup {NewId(is_default)} |->
                       IF k \in DOMAIN is_default THEN is_default[k] ELSE settings[s].is_default]
              ELSE is_default
    /\ settings' = [settings EXCEPT ![s] = SettingsIdle]
    /\ UNCHANGED allocationVars

\* Two sessions on the Settings screen.
NextSettings ==
    \E s \in Sessions :
        \/ \E id \in DOMAIN is_default : setDefaultCombination(s, id)
        \/ \E def \in BOOLEAN : saveSeatingCombination(s, def)
        \/ UnsetAnswer(s)
        \/ SetAnswer(s)
        \/ InsertCombinationAnswer(s)

SpecSettings == Init /\ [][NextSettings]_vars

(***************************************************************************)
(* The mixing and packing computation on its own: a run taken from the     *)
(* answer of its students query, over every roster of up to MaxRoster      *)
(* students of the exam's years and every strategy.                        *)
(***************************************************************************)
RosterSections == {"A", "B"}

Rosters ==
    UNION { { OrderRows({[id |-> i, year |-> f[i][1], section |-> f[i][2]] : i \in 1 .. n}) :
                f \in [1 .. n -> ExamYears \X RosterSections] } : n \in 1 .. MaxRoster }

InitEngine ==
    /\ year = [i \in StudentIds |-> "II Year"]
    /\ active = [c \in ClassroomIds |-> TRUE]
    /\ stored = {}
    /\ classrooms = [s \in Sessions |-> fetchClassrooms(active)]
    /\ pc = [s \in Sessions |-> IF s = 1 THEN "delete" ELSE "idle"]
    /\ isAllocating = [s \in Sessions |-> s = 1]
    /\ rooms = [s \in Sessions |-> IF s = 1 THEN fetchClassrooms(active) ELSE << >>]
    /\ strategy \in [Sessions -> StrategyNames]
    /\ strategy[2] = "block"
    /\ students \in [Sessions -> Rosters \cup {<< >>}]
    /\ students[1] # << >>
    /\ students[2] = << >>
    /\ allocations = [s \in Sessions |-> << >>]
    /\ toast = [s \in Sessions |-> NoToast]
    /\ answered = [s \in Sessions |-> s = 1]
    /\ removed = [s \in Sessions |-> 0]
    /\ inserted = [s \in Sessions |-> 0]
    /\ runs = 1
    /\ edits = 0
    /\ status = [e \in Exams |-> "scheduled"]
    /\ years_of = [e \in Exams |-> ExamYearsOf(e)]
    /\ exams = [s \in Sessions |-> fetchExams(status, years_of)]
    /\ selectedExam = [s \in Sessions |-> SelectedExam]
    /\ mixedStudents = [s \in Sessions |-> << >>]
    /\ is_default = [k \in {c.id : c \in SeatingCombinations} |-> k = "k1"]
    /\ settings = [s \in Sessions |-> SettingsIdle]
    /\ dialog = DialogClosed
    /\ submits = << >>
    /\ report = ReportsMounted({})
    /\ index = LoggedOut
    /\ upload = NoUpload
    /\ roll_numbers = {}

NextEngine ==
    \/ DeleteAnswer(1)
    \/ InsertAnswer(1)

SpecEngine == InitEngine /\ [][NextEngine]_vars

(***************************************************************************)
(* The sample classrooms of the migration with a roster of                 *)
(* ScenarioStudents students and the alternate strategy: a run taken from  *)
(* the answer of its students query.  The roster is II Year A up to roll   *)
(* p, II Year B up to roll q and III Year A after, for every p <= q of     *)
(* ScenarioSplits.                                                         *)
(***************************************************************************)
SampleClassrooms ==
    << [id |-> "s1", room_number |-> "A-101", total_benches |-> 30, students_per_bench |-> 2],
       [id |-> "s2", room_number |-> "A-102", total_benches |-> 25, students_per_bench |-> 2],
       [id |-> "s3", room_number |-> "B-201", total_benches |-> 35, students_per_bench |-> 2],
       [id |-> "s4", room_number |-> "B-202", total_benches |-> 28, students_per_bench |-> 2] >>

SampleRooms == [k \in 1 .. Len(SampleClassrooms) |-> ClassroomRow(SampleClassrooms[k])]

ScenarioSplits == {(k * ScenarioStudents) \div 7 : k \in 0 .. 7}

ScenarioRoster(p, q) ==
    [i \in 1 .. ScenarioStudents |->
        [id |-> i,
         year |-> IF i <= q THEN "II Year" ELSE "III Year",
         section |-> IF i <= p THEN "A" ELSE IF i <= q THEN "B" ELSE "A"]]

InitScenario ==
    /\ year = [i \in StudentIds |-> "II Year"]
    /\ active = [c \in ClassroomIds |-> TRUE]
    /\ stored = {}
    /\ classrooms = [s \in Sessions |-> SampleRooms]
    /\ pc = [s \in Sessions |-> IF s = 1 THEN "delete" ELSE "idle"]
    /\ isAllocating = [s \in Sessions |-> s = 1]
    /\ rooms = [s \in Sessions |-> IF s = 1 THEN SampleRooms ELSE << >>]
    /\ strategy = [s \in Sessions |-> IF s = 1 THEN "alternate" ELSE "block"]
    /\ \E p, q \in ScenarioSplits :
          /\ p <= q
          /\ students = [s \in Sessions |-> IF s = 1 THEN ScenarioRoster(p, q) ELSE << >>]
    /\ allocations = [s \in Sessions |-> << >>]
    /\ toast = [s \in Sessions |-> NoToast]
    /\ answered = [s \in Sessions |-> s = 1]
    /\ removed = [s \in Sessions |-> 0]
    /\ inserted = [s \in Sessions |-> 0]
    /\ runs = 1
    /\ edits = 0
    /\ status = [e \in Exams |-> "scheduled"]
    /\ years_of = [e \in Exams |-> ExamYearsOf(e)]
    /\ exams = [s \in Sessions |-> fetchExams(status, years_of)]
    /\ selectedExam = [s \in Sessions |-> SelectedExam]
    /\ mixedStudents = [s \in Sessions |-> << >>]
    /\ is_default = [k \in {c.id : c \in SeatingCombinations} |-> k = "k1"]
    /\ settings = [s \in Sessions |-> SettingsIdle]
    /\ dialog = DialogClosed
    /\ submits = << >>
    /\ report = ReportsMounted({})
    /\ index = LoggedOut
    /\ upload = NoUpload
    /\ roll_numbers = {}

SpecScenario == InitScenario /\ [][NextEngine]_vars

(***************************************************************************)
(* Vocabulary of the properties.                                           *)
(***************************************************************************)
\* N: the eligible students of the run; C: the seats of its classrooms.
Needed(s) == Len(students[s])

RECURSIVE SeatsOf(_, _)
SeatsOf(cls, k) ==
    IF k > Len(cls) THEN 0
    ELSE cls[k].total_benches * cls[k].students_per_bench + SeatsOf(cls, k + 1)

Available(s) == SeatsOf(rooms[s], 1)

Finished(s) == pc[s] = "idle" /\ toast[s].title # ""

\* The run has passed the capacity test.
PastGate(s) ==
    \/ pc[s] = "insert"
    \/ /\ pc[s] = "idle"
       /\ toast[s].title \in {"Insufficient Capacity", "Allocation Complete", "Allocation Failed"}

StudentsOf(seq) == {seq[n].id : n \in 1 .. Len(seq)}

SlotOf(a) == << a.classroom_id, a.bench_number, a.seat_position >>

\* C1: a run with N <= C puts out exactly N allocations, one for each
\* eligible student and none for anyone else.
Completeness ==
    \A s \in Sessions :
        ((pc[s] = "insert" \/ Finished(s)) /\ Needed(s) <= Available(s)) =>
            /\ Len(allocations[s]) = Needed(s)
            /\ \A n \in 1 .. Needed(s) :
                  Cardinality({m \in 1 .. Len(allocations[s]) :
                                  allocations[s][m].student_id = students[s][n].id}) = 1
            /\ \A m \in 1 .. Len(allocations[s]) :
                  allocations[s][m].student_id \in StudentsOf(students[s])

CompletenessWitness ==
    \E s \in Sessions :
        /\ toast[s].title = "Allocation Complete"
        /\ Needed(s) = 3
        /\ Needed(s) < Available(s)
        /\ Len(allocations[s]) = 3

\* C2: a run stopped by the capacity test has deleted nothing and inserted
\* nothing.
CapacityGateNoMutation ==
    \A s \in Sessions :
        toast[s].title = "Insufficient Capacity" => removed[s] = 0 /\ inserted[s] = 0

\* C3: a run that fails, for whatever reason, has deleted nothing and
\* inserted nothing.
NoPartialCommit ==
    \A s \in Sessions :
        (Finished(s) /\ toast[s].title # "Allocation Complete") =>
            removed[s] = 0 /\ inserted[s] = 0

\* C4: with two runs for the exam, the stored rows never hold a student or a
\* slot twice, and once both runs have ended (each having computed its
\* allocations, one at least having stored them) the stored rows are the
\* complete output of one run that succeeded.
ConcurrentRunsOneOutput ==
    /\ \A a, b \in ExamRows(stored, SelectedExam) :
          a # b => a.student_id # b.student_id /\ SlotOf(a) # SlotOf(b)
    /\ (/\ \A s \in Sessions : Finished(s) /\ PastGate(s) /\ allocations[s] # << >>
        /\ \E s \in Sessions : toast[s].title = "Allocation Complete") =>
          \E s \in Sessions :
              /\ toast[s].title = "Allocation Complete"
              /\ ExamRows(stored, SelectedExam) = RowSet(allocations[s])

\* C5: every step that changes the exam's stored rows puts the complete
\* computed set of a run in their place; no other set of rows is ever stored.
SingleAtomicReplacement ==
    [][ExamRows(stored, SelectedExam)' # ExamRows(stored, SelectedExam) =>
           \E s \in Sessions :
               /\ pc[s] # "idle"
               /\ allocations'[s] # << >>
               /\ ExamRows(stored, SelectedExam)' = RowSet(allocations'[s])]_vars

\* C6: a run with N > C ends with the insufficient-capacity notice carrying
\* needed = N and available = C, and inserts nothing; the notice is shown
\* for no other run.
CapacityGateError ==
    \A s \in Sessions :
        /\ (PastGate(s) /\ Needed(s) > Available(s)) =>
              /\ toast[s] = [title |-> "Insufficient Capacity",
                             needed |-> Needed(s), available |-> Available(s),
                             allocated |-> 0]
              /\ pc[s] = "idle"
              /\ allocations[s] = << >>
              /\ inserted[s] = 0
        /\ toast[s].title = "Insufficient Capacity" => Needed(s) > Available(s)

CapacityGateErrorWitness ==
    \E s \in Sessions :
        /\ toast[s].title = "Insufficient Capacity"
        /\ Needed(s) = 3
        /\ Available(s) = 2

\* C7: after a run that read the roster, no stored allocation of the exam
\* names a student who was not eligible in that reading.
RerunLeavesNoStaleStudent ==
    \A s \in Sessions :
        (Finished(s) /\ answered[s]
           /\ toast[s].title \in {"Allocation Complete", "No Students Found"}) =>
            \A r \in ExamRows(stored, SelectedExam) : r.student_id \in StudentsOf(students[s])

\* C8: a run that finds no eligible student ends as a success with an empty
\* allocation set.
EmptyEligibilityIsSuccess ==
    \A s \in Sessions :
        (Finished(s) /\ answered[s] /\ Needed(s) = 0) =>
            toast[s].title = "Allocation Complete" /\ allocations[s] = << >>

SlotUniqueness ==
    \A s \in Sessions :
        \A n, m \in 1 .. Len(allocations[s]) :
            n # m => SlotOf(allocations[s][n]) # SlotOf(allocations[s][m])

SlotUniquenessWitness ==
    \E s \in Sessions :
        /\ Len(allocations[s]) = 3
        /\ \E n, m \in 1 .. 3 :
              /\ n # m
              /\ allocations[s][n].classroom_id = allocations[s][m].classroom_id
              /\ allocations[s][n].bench_number # allocations[s][m].bench_number
        /\ \E n, m \in 1 .. 3 :
              allocations[s][n].classroom_id # allocations[s][m].classroom_id

\* C11: every allocation of a run's output names a classroom of the run, a
\* bench from 1 to that classroom's total_benches and a seat from 1 to its
\* students_per_bench.
SlotRanges ==
    \A s \in Sessions :
        \A n \in 1 .. Len(allocations[s]) :
            \E k \in 1 .. Len(rooms[s]) :
                /\ rooms[s][k].id = allocations[s][n].classroom_id
                /\ allocations[s][n].bench_number \in 1 .. rooms[s][k].total_benches
                /\ allocations[s][n].seat_position \in 1 .. rooms[s][k].students_per_bench

\* The last seat of the last bench of a classroom is taken, past the first.
SlotRangesWitness ==
    \E s \in Sessions :
        \E n \in 1 .. Len(allocations[s]) :
            \E k \in 1 .. Len(rooms[s]) :
                /\ rooms[s][k].id = allocations[s][n].classroom_id
                /\ rooms[s][k].students_per_bench > 1
                /\ allocations[s][n].bench_number = rooms[s][k].total_benches
                /\ allocations[s][n].seat_position = rooms[s][k].students_per_bench

\* The run has mixed its students.
Mixed(s) ==
    \/ pc[s] = "insert"
    \/ Finished(s) /\ toast[s].title \in {"Allocation Complete", "Allocation Failed"}

Occurrences(seq, i) == Cardinality({n \in 1 .. Len(seq) : seq[n].id = i})

\* C12: whatever the strategy and the random draws, the mixed sequence holds
\* each student id as many times as the eligible sequence does: no student
\* is added, dropped or duplicated.
MixingIsPermutation ==
    \A s \in Sessions :
        Mixed(s) =>
            /\ Len(mixedStudents[s]) = Len(students[s])
            /\ \A i \in StudentsOf(students[s]) \cup StudentsOf(mixedStudents[s]) :
                  Occurrences(mixedStudents[s], i) = Occurrences(students[s], i)

\* A random run whose draws moved every one of four students.
MixingIsPermutationWitness ==
    \E s \in Sessions :
        /\ Mixed(s)
        /\ strategy[s] = "random"
        /\ Len(students[s]) = 4
        /\ \A n \in 1 .. 4 : mixedStudents[s][n] # students[s][n]

\* C13: in the order the alternate strategy puts out, two consecutive
\* students are of one (year, section) group only if every student from the
\* second of them on is of that group.
AlternateAdjacency ==
    \A s \in Sessions :
        (Mixed(s) /\ strategy[s] = "alternate") =>
            \A p \in 1 .. Len(mixedStudents[s]) - 1 :
                GroupKey(mixedStudents[s][p]) = GroupKey(mixedStudents[s][p + 1]) =>
                    \A q \in p + 1 .. Len(mixedStudents[s]) :
                        GroupKey(mixedStudents[s][q]) = GroupKey(mixedStudents[s][p + 1])

\* Two groups alternate, then the larger one runs on alone.
AlternateAdjacencyWitness ==
    \E s \in Sessions :
        /\ Mixed(s)
        /\ strategy[s] = "alternate"
        /\ Len(mixedStudents[s]) = 4
        /\ GroupKey(mixedStudents[s][1]) # GroupKey(mixedStudents[s][2])
        /\ GroupKey(mixedStudents[s][3]) = GroupKey(mixedStudents[s][4])

\* a comes before b by (year, section, roll_number).
InQueryOrder(a, b) ==
    \/ YearRank(a.year) < YearRank(b.year)
    \/ YearRank(a.year) = YearRank(b.year) /\ SectionRank(a.section) < SectionRank(b.section)
    \/ YearRank(a.year) = YearRank(b.year) /\ SectionRank(a.section) = SectionRank(b.section)
          /\ a.id < b.id

ScheduledExamsOnly ==
    [][\A e \in Exams :
          ExamRows(stored', e) # ExamRows(stored, e) => status[e] = "scheduled"]_vars

\* C16: a step of a session's run leaves the stored allocations of every
\* exam other than the session's own as they are, and no other step changes
\* a stored allocation.
RunsForDifferentExamsIndependent ==
    [][/\ \A s \in Sessions :
             pc'[s] # pc[s] =>
                 \A e \in Exams \ {selectedExam[s]} :
                     {r \in stored' : r.exam_id = e} = {r \in stored : r.exam_id = e}
       /\ pc' = pc => stored' = stored]_vars

\* A run for one exam has sent its delete while the other exam's rows, with
\* a student of this run among them, are stored.
RunsForDifferentExamsIndependentWitness ==
    /\ selectedExam[1] # selectedExam[2]
    /\ pc[1] = "insert"
    /\ toast[2].title = "Allocation Complete"
    /\ \E r \in stored :
          /\ r.exam_id = selectedExam[2]
          /\ r.student_id \in StudentsOf(students[1])

\* C17: at most one seating combination has is_default true.
AtMostOneDefault ==
    Cardinality({k \in DOMAIN is_default : is_default[k]}) <= 1

\* Two runs were given the same eligible sequence, the same ordered
\* classrooms and the same strategy, and both have mixed and packed.
SameInputs(s, t) ==
    /\ Mixed(s) /\ Mixed(t)
    /\ students[s] = students[t]
    /\ rooms[s] = rooms[t]
    /\ strategy[s] = strategy[t]

\* The seats of an allocation sequence, element by element.
Seating(seq) ==
    [n \in 1 .. Len(seq) |->
        << seq[n].student_id, seq[n].classroom_id, seq[n].bench_number, seq[n].seat_position >>]

SeededRandomReproducible ==
    \A s, t \in Sessions :
        (SameInputs(s, t) /\ strategy[s] = "random") =>
            mixedStudents[s] = mixedStudents[t]

\* The allocations of a sequence that name the k-th classroom of the run.
SeatedIn(s, k) ==
    Cardinality({n \in 1 .. Len(allocations[s]) :
                    allocations[s][n].classroom_id = rooms[s][k].id})

\* C21: with the four sample classrooms (60, 50, 70 and 56 seats in room
\* order), ScenarioStudents eligible students and strategy alternate, the
\* run passes the capacity test and computes one allocation per student, the
\* first three classrooms full and the last holding the rest; the store
\* accepts the set, and the run never ends with a capacity or no-students
\* notice; when the insert is executed all the allocations are stored.
ScenarioA ==
    /\ pc[1] # "delete" =>
          /\ Len(allocations[1]) = ScenarioStudents
          /\ \A k \in 1 .. 3 : SeatedIn(1, k) = rooms[1][k].total_capacity
          /\ SeatedIn(1, 4) = ScenarioStudents - (60 + 50 + 70)
          /\ rooms[1][4].total_capacity - SeatedIn(1, 4) = 236 - ScenarioStudents
    /\ pc[1] = "insert" => InsertAccepted(stored, allocations[1])
    /\ Finished(1) => toast[1].title \in {"Allocation Complete", "Allocation Failed"}
    /\ toast[1].title = "Allocation Complete" =>
          /\ toast[1].allocated = ScenarioStudents
          /\ stored = RowSet(allocations[1])
          /\ Cardinality(stored) = ScenarioStudents

\* The run has stored 230 allocations, 50 of them in the last classroom.
ScenarioAWitness ==
    /\ toast[1].title = "Allocation Complete"
    /\ Cardinality(stored) = 230
    /\ SeatedIn(1, 4) = 50
    /\ rooms[1][4].total_capacity - SeatedIn(1, 4) = 6
    /\ mixedStudents[1] # students[1]

\* The place of slot (k-th classroom, bench, seat) in the enumeration that
\* visits the classrooms in order, in a classroom the benches from 1, in a
\* bench the seats from 1.
SlotNumber(cls, k, bench, seat) ==
    SeatsOf(SubSeq(cls, 1, k - 1), 1) + (bench - 1) * cls[k].students_per_bench + seat

\* The place of a classroom in the classrooms table, which is in room order.
RoomOrder(id) == CHOOSE k \in 1 .. Len(ClassroomTable) : ClassroomTable[k].id = id

\* C22: the run's classrooms are in room order, and the n-th allocation
\* binds the n-th student of the mixed sequence to the n-th slot of the
\* enumeration; with N allocations, the first N slots are the filled ones.
PackingOrder ==
    \A s \in Sessions :
        Mixed(s) =>
            /\ \A k, l \in 1 .. Len(rooms[s]) :
                  k < l => RoomOrder(rooms[s][k].id) < RoomOrder(rooms[s][l].id)
            /\ Len(allocations[s]) = Len(mixedStudents[s])
            /\ \A n \in 1 .. Len(allocations[s]) :
                  /\ allocations[s][n].student_id = mixedStudents[s][n].id
                  /\ \E k \in 1 .. Len(rooms[s]) :
                        /\ rooms[s][k].id = allocations[s][n].classroom_id
                        /\ allocations[s][n].bench_number \in 1 .. rooms[s][k].total_benches
                        /\ allocations[s][n].seat_position
                              \in 1 .. rooms[s][k].students_per_bench
                        /\ SlotNumber(rooms[s], k, allocations[s][n].bench_number,
                                      allocations[s][n].seat_position) = n

\* Four shuffled students: two benches of the first classroom, then two
\* seats of one bench of the second.
PackingOrderWitness ==
    \E s \in Sessions :
        /\ Mixed(s)
        /\ strategy[s] = "random"
        /\ mixedStudents[s] # students[s]
        /\ Len(allocations[s]) = 4
        /\ allocations[s][2].classroom_id = rooms[s][1].id
        /\ allocations[s][2].bench_number = 2
        /\ allocations[s][4].classroom_id = rooms[s][2].id
        /\ allocations[s][4].seat_position = 2

\* The reference round-robin, by position.  Students a and b of a sequence
\* are of one group when year and section agree; MemberNumber is a
\* student's place inside its group, GroupStart the place in the sequence
\* where its group first appears.
SameGroup(seq, a, b) == seq[a].year = seq[b].year /\ seq[a].section = seq[b].section

MemberNumber(seq, a) == Cardinality({b \in 1 .. a : SameGroup(seq, a, b)})

GroupStart(seq, a) == CHOOSE b \in 1 .. a :
                         /\ SameGroup(seq, a, b)
                         /\ \A c \in 1 .. b - 1 : ~SameGroup(seq, a, c)

\* The students emitted up to and including a: those of earlier rounds, and
\* those of a's round whose group appears no later than a's.
RoundRobinPlace(seq, a) ==
    Cardinality({b \in 1 .. Len(seq) :
                    \/ MemberNumber(seq, b) < MemberNumber(seq, a)
                    \/ /\ MemberNumber(seq, b) = MemberNumber(seq, a)
                       /\ GroupStart(seq, b) <= GroupStart(seq, a)})

\* C23: the alternate strategy puts every student of its input at the place
\* the reference round-robin gives it: round by round, one student of each
\* group that still has one, groups in order of first appearance, each group
\* in input order.
AlternateIsRoundRobin ==
    \A s \in Sessions :
        (Mixed(s) /\ strategy[s] = "alternate") =>
            /\ Len(mixedStudents[s]) = Len(students[s])
            /\ \A a \in 1 .. Len(students[s]) :
                  mixedStudents[s][RoundRobinPlace(students[s], a)] = students[s][a]

\* Three groups, the first of two students: a full round, then the first
\* group alone.
AlternateIsRoundRobinWitness ==
    \E s \in Sessions :
        /\ Mixed(s)
        /\ strategy[s] = "alternate"
        /\ Len(mixedStudents[s]) = 4
        /\ mixedStudents[s] # students[s]
        /\ Cardinality({GroupKey(mixedStudents[s][n]) : n \in 1 .. 3}) = 3
        /\ GroupKey(mixedStudents[s][4]) = GroupKey(mixedStudents[s][1])

\* C24: every allocation a run hands to the store has a seat position the
\* table's constraint on seat_position admits, whatever the
\* students_per_bench (1 to 3) of the run's classrooms.
ThreePerBenchStorable ==
    \A s \in Sessions :
        pc[s] = "insert" =>
            \A n \in 1 .. Len(allocations[s]) :
                allocations[s][n].seat_position \in SeatPositions

\* C26: a classroom request the store executed from a dialog opened through
\* Add Classroom is an insert, never an update; and an open dialog is in edit
\* mode (editingClassroom set) only if Edit opened it.
AddNeverEdits ==
    /\ \A n \in 1 .. Len(submits) :
           submits[n].via = "add" => submits[n].kind = "insert"
    /\ (dialog.dialogOpen /\ dialog.editingClassroom # "") => dialog.via = "edit"

\* C27: the displayed seating reports and the classroom filter list are each
\* empty or were loaded by a query for the exam that is selected now.
ReportsMatchSelectedExam ==
    /\ report.seatingReports # {} => report.reportsFor = report.selectedExam
    /\ report.availableClassrooms # {} => report.availableFor = report.selectedExam

\* The components of the faculty pages.
FacultyPages ==
    {"StudentManagement", "ExcelUpload", "ClassroomManagement", "SeatAllocation",
     "Reports", "Settings"}

\* C28: without a user only the login form is rendered, and currentPage is
\* dashboard (so the next login starts there); with a student logged in, no
\* faculty page is rendered, whatever the page id navigated to.
PageAccessByRole ==
    /\ index.currentUser = "" =>
           renderPage(index) = "LoginForm" /\ index.currentPage = "dashboard"
    /\ index.currentUser = "student" => renderPage(index) \notin FacultyPages

\* A student has logged in after a faculty session, and has navigated to the
\* page id of a faculty page.
PageAccessByRoleWitness ==
    /\ index.currentUser = "student"
    /\ index.currentPage = "settings"
    /\ renderPage(index) = "Dashboard"

\* A step in which session s starts a run.
RunStarts(s) ==
    /\ runs' = runs + 1
    /\ pc'[s] = "students"
    /\ \A o \in Sessions \ {s} : pc'[o] = pc[o]

\* C29: a run that has set isAllocating releases it in the end, whatever its
\* outcome; and while a session's isAllocating is true, no run starts from
\* that session.
BusyFlagReleased ==
    /\ \A s \in Sessions : isAllocating[s] ~> ~isAllocating[s]
    /\ [][\A s \in Sessions : isAllocating[s] => ~RunStarts(s)]_vars

\* With a classroom switched in between, a second run has ended on a failed
\* insert, with the flag released.
BusyFlagReleasedWitness ==
    /\ runs = 2
    /\ edits > 0
    /\ pc[1] = "idle"
    /\ toast[1].title = "Allocation Failed"
    /\ ~isAllocating[1]

\* C30: no row is handed to the store twice and no row failing a validation
\* is handed to it; and when an import has finished, its success and failed
\* counts add up to the number of data rows, it has one error message per
\* failed row, and every row passing the validations was handed to the store,
\* whatever happened to the rows before it.
ImportAccounting ==
    LET sent == upload.sent
        rows == upload.students
    IN /\ \A a, b \in 1 .. Len(sent) : sent[a] = sent[b] => a = b
       /\ \A a \in 1 .. Len(sent) : validate(rows[sent[a]]) = ""
       /\ upload.uploadResult # NoResult =>
              /\ upload.uploadResult.success + upload.uploadResult.failed = Len(rows)
              /\ Len(upload.uploadResult.errors) = upload.uploadResult.failed
              /\ \A i \in 1 .. Len(rows) :
                     validate(rows[i]) = "" => \E a \in 1 .. Len(sent) : sent[a] = i

\* An import of three rows has finished: the first refused by the store as a
\* duplicate, the second failing a validation, the third stored.
ImportAccountingWitness ==
    /\ upload.uploadResult # NoResult
    /\ Len(upload.students) = 3
    /\ upload.sent = << 1, 3 >>
    /\ upload.uploadResult.success = 1
    /\ upload.uploadResult.failed = 2
    /\ upload.errors[1].message = "already exists"

\* C25: every year label in an exam's year set is a label the students
\* table accepts for a student's year.
YearVocabularyAgreement ==
    \A e \in Exams : years_of[e] \subseteq Years

====
